---- MODULE Spec2Model ----
(***************************************************************************)
(* A model of pipeline_ETL.py: the ConnectivityETL object, its run_pipeline *)
(* (extract, two transforms, two intermediate writes, merge, final write)   *)
(* and the column-wise transforms each step applies.                        *)
(*                                                                          *)
(* Text is a tuple of one-character strings, so that strip, upper, replace, *)
(* substring search and float parsing are computed character by character.  *)
(* A cell of a DataFrame is a tagged record: Na (NaN / pd.NA), Str(text),   *)
(* Num(fraction) or Bool(b).  Numbers are exact fractions <<n, d>> in       *)
(* lowest terms (binary rounding of floats is not modelled).                *)
(***************************************************************************)
EXTENDS Integers, Sequences, FiniteSets, TLC

VARIABLES
    pc,                     \* position of run_pipeline
    disk,                   \* the two input CSV files (NoFile when unreadable)
    cobertura_movil,        \* self.cobertura_movil
    accesos,                \* self.accesos
    df_final,               \* self.df_final
    cobertura_transformed,  \* local of run_pipeline
    accesos_transformed,    \* local of run_pipeline
    files,                  \* the three output files: absent, partial or complete
    error                   \* the exception that ended the run, or NoError

vars == <<pc, disk, cobertura_movil, accesos, df_final,
          cobertura_transformed, accesos_transformed, files, error>>

----------------------------------------------------------------------------
(* Bounds of the model.                                                     *)

MaxMarkerLen == 2   \* longest raw text of a technology marker cell
MaxNumLen == 3      \* longest raw text of a numeric cell
MaxTecWords == 2    \* most fragments concatenated into a technology name
MaxCopies == 2      \* most copies of one row in an input file
MaxRows == 3        \* most rows of both input files together (merge inputs)

----------------------------------------------------------------------------
(* Characters and text.                                                     *)

\* The characters used, in code-point order (Python compares str by code point).
Alphabet ==
    <<" ", "+", ",", ".", "0", "1", "2", "3", "4", "5", "6", "7", "8", "9",
      "A", "B", "C", "D", "E", "F", "G", "H", "I", "J", "K", "L", "M", "N",
      "O", "P", "Q", "R", "S", "T", "U", "V", "W", "X", "Y", "Z", "_",
      "a", "b", "c", "d", "e", "f", "g", "h", "i", "j", "k", "l", "m", "n",
      "o", "p", "q", "r", "s", "t", "u", "v", "w", "x", "y", "z", "Á">>

Ord(c) == CHOOSE i \in 1..Len(Alphabet) : Alphabet[i] = c

IsLower(c) == Ord(c) >= Ord("a") /\ Ord(c) <= Ord("z")
IsDigit(c) == Ord(c) >= Ord("0") /\ Ord(c) <= Ord("9")
DigitValue(c) == Ord(c) - Ord("0")

\* str.upper, one character
UpperChar(c) == IF IsLower(c) THEN Alphabet[Ord(c) - Ord("a") + Ord("A")] ELSE c

\* str.upper()
Upper(s) == [i \in 1..Len(s) |-> UpperChar(s[i])]

\* str.strip(): leading and trailing whitespace removed
RECURSIVE LStrip(_)
LStrip(s) == IF s # << >> /\ Head(s) = " " THEN LStrip(Tail(s)) ELSE s

RECURSIVE RStrip(_)
RStrip(s) ==
    IF s # << >> /\ s[Len(s)] = " " THEN RStrip(SubSeq(s, 1, Len(s) - 1)) ELSE s

Strip(s) == RStrip(LStrip(s))

\* str.replace(',', '.', regex=False): every comma becomes a period
ReplaceComma(s) == [i \in 1..Len(s) |-> IF s[i] = "," THEN "." ELSE s[i]]

\* Python's `sub in s`
Contains(s, sub) ==
    \E i \in 1..(Len(s) - Len(sub) + 1) : SubSeq(s, i, i + Len(sub) - 1) = sub

\* Python's s < t on str
RECURSIVE LexLess(_, _)
LexLess(s, t) ==
    IF t = << >> THEN FALSE
    ELSE IF s = << >> THEN TRUE
    ELSE IF Head(s) = Head(t) THEN LexLess(Tail(s), Tail(t))
    ELSE Ord(Head(s)) < Ord(Head(t))

\* sorted(S) for a finite set of texts
RECURSIVE SortedTexts(_)
SortedTexts(S) ==
    IF S = {} THEN << >>
    ELSE LET m == CHOOSE x \in S : \A y \in S \ {x} : LexLess(x, y)
         IN  <<m>> \o SortedTexts(S \ {m})

\* ', '.join(seq)
RECURSIVE JoinComma(_)
JoinComma(seq) ==
    IF seq = << >> THEN << >>
    ELSE IF Len(seq) = 1 THEN seq[1]
    ELSE seq[1] \o <<",", " ">> \o JoinComma(Tail(seq))

\* All texts over the characters cs of length at most n
RECURSIVE TextsUpTo(_, _)
TextsUpTo(cs, n) ==
    IF n = 0 THEN {<< >>}
    ELSE LET shorter == TextsUpTo(cs, n - 1)
         IN  shorter \cup {Append(s, c) : s \in shorter, c \in cs}

----------------------------------------------------------------------------
(* Cells.                                                                   *)

Na == [t |-> "na", v |-> 0]
Str(s) == [t |-> "str", v |-> s]
Num(q) == [t |-> "num", v |-> q]
Bool(b) == [t |-> "bool", v |-> b]

IsNa(x) == x.t = "na"

RECURSIVE Gcd(_, _)
Gcd(a, b) == IF b = 0 THEN a ELSE Gcd(b, a % b)

\* the fraction n/d (d > 0) in lowest terms
Frac(n, d) ==
    LET g == Gcd(IF n < 0 THEN -n ELSE n, d)
    IN  IF n = 0 THEN <<0, 1>> ELSE <<n \div g, d \div g>>

FracAdd(p, q) == Frac(p[1] * q[2] + q[1] * p[2], p[2] * q[2])
FracDiv(p, k) == Frac(p[1], p[2] * k)

\* Decimal digits of a natural number, as text
RECURSIVE NatText(_)
NatText(n) ==
    IF n < 10 THEN <<Alphabet[Ord("0") + n]>>
    ELSE Append(NatText(n \div 10), Alphabet[Ord("0") + (n % 10)])

RECURSIVE Pow10(_)
Pow10(k) == IF k = 0 THEN 1 ELSE 10 * Pow10(k - 1)

\* k decimal digits of m, zero-padded on the left
RECURSIVE PaddedDigits(_, _)
PaddedDigits(m, k) ==
    IF k = 0 THEN << >>
    ELSE Append(PaddedDigits(m \div 10, k - 1), Alphabet[Ord("0") + (m % 10)])

\* str(x) of a non-negative float64 with a finite decimal expansion: "2023.0", "12.5"
FloatText(q) ==
    LET k == CHOOSE j \in 0..18 :
                 /\ Pow10(j) % q[2] = 0
                 /\ \A i \in 0..(j - 1) : Pow10(i) % q[2] # 0
        m == q[1] * (Pow10(k) \div q[2])
    IN  IF k = 0 THEN NatText(m) \o <<".", "0">>
        ELSE NatText(m \div Pow10(k)) \o <<".">> \o PaddedDigits(m % Pow10(k), k)

\* Series.astype(str) on one cell: NaN prints as "nan"
AsStr(x) ==
    CASE x.t = "na" -> <<"n", "a", "n">>
      [] x.t = "str" -> x.v
      [] x.t = "num" -> FloatText(x.v)
      [] x.t = "bool" -> IF x.v THEN <<"T", "r", "u", "e">>
                         ELSE <<"F", "a", "l", "s", "e">>

\* Series.astype('string') on one cell: a missing value stays missing
AsStringDtype(x) == IF IsNa(x) THEN Na ELSE Str(AsStr(x))

----------------------------------------------------------------------------
(* Numerals.                                                                *)

\* digits, with at most one period and at least one digit: "12", "12.5", "1.", ".5"
IsNumeral(s) ==
    /\ \A i \in 1..Len(s) : IsDigit(s[i]) \/ s[i] = "."
    /\ \E i \in 1..Len(s) : IsDigit(s[i])
    /\ Cardinality({i \in 1..Len(s) : s[i] = "."}) <= 1

RECURSIVE DigitsValue(_)
DigitsValue(s) ==
    IF s = << >> THEN 0
    ELSE 10 * DigitsValue(SubSeq(s, 1, Len(s) - 1)) + DigitValue(s[Len(s)])

NumeralValue(s) ==
    LET dots == {i \in 1..Len(s) : s[i] = "."}
        p == IF dots = {} THEN Len(s) + 1 ELSE CHOOSE i \in dots : TRUE
        digits == SubSeq(s, 1, p - 1) \o SubSeq(s, p + 1, Len(s))
    IN  Frac(DigitsValue(digits), Pow10(Len(s) - p + (IF dots = {} THEN 1 ELSE 0)))

----------------------------------------------------------------------------
(* extract_data: pd.read_csv.  A file is [cols, rows]: the header names and *)
(* the rows, each a function from header name to the cell's text.           *)

NoFile == [cols |-> {}, rows |-> << >>, readable |-> FALSE]
CsvFile(cols, rows) == [cols |-> cols, rows |-> rows, readable |-> TRUE]

NoError == [type |-> "none", line |-> 0]   \* no exception
Raise(type, line) == [type |-> type, line |-> line]

NoFrame == [cols |-> {}, rows |-> << >>]

\* read_csv's default na_values (those the Alphabet can spell)
NaTexts ==
    {<< >>, <<"N", "A">>, <<"N", "a", "N">>, <<"n", "a", "n">>,
     <<"N", "U", "L", "L">>, <<"n", "u", "l", "l">>, <<"N", "o", "n", "e">>}

\* read_csv infers a column as numeric when every cell that is not NA parses as a
\* number (no thousands separator, so a comma never does); else it is object and
\* the cells stay text.
CsvColumnIsNumeric(rows, c) ==
    \A i \in 1..Len(rows) : rows[i][c] \in NaTexts \/ IsNumeral(Strip(rows[i][c]))

read_csv_cell(rows, c, text) ==
    IF text \in NaTexts THEN Na
    ELSE IF CsvColumnIsNumeric(rows, c) THEN Num(NumeralValue(Strip(text)))
    ELSE Str(text)

read_csv(file) ==
    [cols |-> file.cols,
     rows |-> [i \in 1..Len(file.rows) |->
                 [c \in file.cols |-> read_csv_cell(file.rows, c, file.rows[i][c])]]]

\* df[col].dtype == 'object': some cell of the column is text
IsObjectColumn(df, c) == \E i \in 1..Len(df.rows) : df.rows[i][c].t = "str"

----------------------------------------------------------------------------
(* Column helpers shared by both transforms.                                *)

\* df.columns.str.strip().str.lower().str.replace(" ", "_") on the header names
\* the input files use
NormalizeColumn(c) ==
    CASE c = "AÑO" -> "año"
      [] c = "TRIMESTRE" -> "trimestre"
      [] c = "PROVEEDOR" -> "proveedor"
      [] c = "DEPARTAMENTO" -> "departamento"
      [] c = "MUNICIPIO" -> "municipio"
      [] c = "CENTRO POBLADO" -> "centro_poblado"
      [] c = "COBERTURA 2G" -> "cobertura_2g"
      [] c = "COBERTURA 3G" -> "cobertura_3g"
      [] c = "COBERTURA HSPA+, HSPA+DC" -> "cobertura_hspa+,_hspa+dc"
      [] c = "COBERTUTA 4G" -> "cobertuta_4g"
      [] c = "COBERTURA LTE" -> "cobertura_lte"
      [] c = "COBERTURA 5G" -> "cobertura_5g"
      [] c = "TECNOLOGIA" -> "tecnologia"
      [] c = "VELOCIDAD BAJADA" -> "velocidad_bajada"
      [] c = "VELOCIDAD SUBIDA" -> "velocidad_subida"
      [] c = "NO DE ACCESOS" -> "no_de_accesos"
      [] c = "COD DEPARTAMENTO" -> "cod_departamento"
      [] c = "COD MUNICIPIO" -> "cod_municipio"
      [] c = "CABECERA MUNICIPAL" -> "cabecera_municipal"
      [] c = "COD CENTRO POBLADO" -> "cod_centro_poblado"
      [] c = "COD_DEPARTAMENTO" -> "cod_departamento"
      [] c = "COD_MUNICIPIO" -> "cod_municipio"
      [] c = "SEGMENTO" -> "segmento"

\* df.drop(columns=cols): the named columns removed from every row
DropColumns(df, cols) ==
    [cols |-> df.cols \ cols,
     rows |-> [i \in 1..Len(df.rows) |-> [c \in df.cols \ cols |-> df.rows[i][c]]]]

\* the header renamed by the function f (one-to-one on the headers used)
RenameColumns(df, f) ==
    LET new == {f[c] : c \in df.cols}
        old(n) == CHOOSE c \in df.cols : f[c] = n
    IN  [cols |-> new,
         rows |-> [i \in 1..Len(df.rows) |-> [n \in new |-> df.rows[i][old(n)]]]]

\* the cells of a frame
CellsOf(df) == {df.rows[i][c] : i \in 1..Len(df.rows), c \in df.cols}

\* for col in cols: if col in df.columns: df[col] = f[df[col]], f a function
\* on the cells
MapColumns(df, cols, f) ==
    [df EXCEPT !.rows =
       [i \in 1..Len(df.rows) |->
          [c \in df.cols |-> IF c \in cols THEN f[df.rows[i][c]] ELSE df.rows[i][c]]]]

\* the rows of a frame
RowsOf(df) == {df.rows[i] : i \in 1..Len(df.rows)}

\* df[col] = value[row] for every row, value a function on the rows: a new or
\* replaced column
WithColumn(df, col, value) ==
    [cols |-> df.cols \cup {col},
     rows |-> [i \in 1..Len(df.rows) |->
                 [c \in df.cols \cup {col} |->
                    IF c = col THEN value[df.rows[i]] ELSE df.rows[i][c]]]]

\* df.drop_duplicates(): the first of each run of equal rows is kept
RECURSIVE DropDuplicates(_)
DropDuplicates(rows) ==
    IF rows = << >> THEN << >>
    ELSE LET init == DropDuplicates(SubSeq(rows, 1, Len(rows) - 1))
             last == rows[Len(rows)]
         IN  IF \E i \in 1..Len(init) : init[i] = last THEN init
             ELSE Append(init, last)

----------------------------------------------------------------------------
(* transform_cobertura_movil                                                *)

Result(err, df) == [error |-> err, df |-> df]

cobertura_cols_to_drop ==
    {"COD DEPARTAMENTO", "COD MUNICIPIO", "CABECERA MUNICIPAL", "COD CENTRO POBLADO"}

\* the two conditional renames of the coverage frame
RenameCobertura(c) ==
    IF c = "cobertuta_4g" THEN "cobertura_4g"
    ELSE IF c = "año" THEN "ano"
    ELSE c

cobertura_text_cols == {"proveedor", "departamento", "municipio", "centro_poblado"}

tech_cols ==
    {"cobertura_2g", "cobertura_3g", "cobertura_4g", "cobertura_5g",
     "cobertura_lte", "cobertura_hspa+,_hspa+dc"}

\* the map followed by fillna(False): anything unmapped is False
MapSNDefaultFalse(t) == Bool(t = <<"S">>)

\* .map({'S': True, 'N': False}).astype('boolean'): anything unmapped is <NA>
MapSN(t) ==
    IF t = <<"S">> THEN Bool(TRUE)
    ELSE IF t = <<"N">> THEN Bool(FALSE)
    ELSE Na

\* astype(str).str.strip().str.upper().map(...).astype('boolean') on one cell
MarkerToBoolean(x) == MapSN(Upper(Strip(AsStr(x))))

\* a | b with <NA> read as False
OrNaAsFalse(a, b) == Bool(a = Bool(TRUE) \/ b = Bool(TRUE))

\* a | b on the nullable boolean dtype (Kleene logic)
KleeneOr(a, b) ==
    IF a = Bool(TRUE) \/ b = Bool(TRUE) THEN Bool(TRUE)
    ELSE IF IsNa(a) \/ IsNa(b) THEN Na
    ELSE Bool(FALSE)

\* the row sum with every cell that is not False counted
TotalNotFalse(row) ==
    Num(Frac(Cardinality({c \in tech_cols : row[c] # Bool(FALSE)}), 1))

\* df[tech_cols].sum(axis=1): True counts 1, False 0, <NA> is skipped
TotalTecnologias(row) ==
    Num(Frac(Cardinality({c \in tech_cols : row[c] = Bool(TRUE)}), 1))

Tiene4gOMas(row) ==
    KleeneOr(KleeneOr(row["cobertura_4g"], row["cobertura_lte"]), row["cobertura_5g"])

transform_cobertura_movil(df0) ==
    IF ~(cobertura_cols_to_drop \subseteq df0.cols)
    THEN Result(Raise("KeyError", 28), NoFrame)
    ELSE
      LET df1 == DropColumns(df0, cobertura_cols_to_drop)
          df2 == RenameColumns(df1, [c \in df1.cols |-> NormalizeColumn(c)])
          df3 == RenameColumns(df2, [c \in df2.cols |-> RenameCobertura(c)])
          df4 == MapColumns(df3, cobertura_text_cols,
                            [x \in CellsOf(df3) |-> AsStringDtype(x)])
          df5 == MapColumns(df4, tech_cols,
                            [x \in CellsOf(df4) |-> MarkerToBoolean(x)])
      IN  IF ~(tech_cols \subseteq df5.cols)
          THEN Result(Raise("KeyError", 59), NoFrame)
          ELSE
            LET df6 == WithColumn(df5, "total_tecnologias",
                                  [r \in RowsOf(df5) |-> TotalTecnologias(r)])
                df7 == WithColumn(df6, "tiene_4g_o_mas",
                                  [r \in RowsOf(df6) |-> Tiene4gOMas(r)])
            IN  Result(NoError, [df7 EXCEPT !.rows = DropDuplicates(@)])

----------------------------------------------------------------------------
(* transform_accesos                                                        *)

accesos_cols_to_drop == {"COD_DEPARTAMENTO", "COD_MUNICIPIO", "SEGMENTO"}

RenameAccesos(c) == IF c = "año" THEN "ano" ELSE c

accesos_text_cols == {"proveedor", "departamento", "municipio", "tecnologia"}

numeric_cols == {"velocidad_bajada", "velocidad_subida", "no_de_accesos"}

\* Python's float(text) for the texts that occur: surrounding whitespace is
\* ignored, "nan" in any case is NaN, a numeral is its value.  (Signs, exponents,
\* "inf" and digit-group underscores are not drawn as inputs.)
FloatParses(s) == Upper(Strip(s)) = <<"N", "A", "N">> \/ IsNumeral(Strip(s))

FloatOfText(s) ==
    IF Upper(Strip(s)) = <<"N", "A", "N">> THEN Na ELSE Num(NumeralValue(Strip(s)))

\* .astype(str) without the replace: the comma stays
CommaKept(x) == Str(AsStr(x))

\* .astype(str).str.replace(',', '.', regex=False) on one cell
CommaToPeriod(x) == Str(ReplaceComma(AsStr(x)))

\* astype(float) raises ValueError on a cell when it is text that float() rejects
FloatRaises(x) == x.t = "str" /\ ~FloatParses(x.v)

\* astype(float) on one cell that converts
AsFloat(x) ==
    CASE x.t = "na" -> Na
      [] x.t = "num" -> x
      [] x.t = "bool" -> Num(Frac(IF x.v THEN 1 ELSE 0, 1))
      [] x.t = "str" -> FloatOfText(x.v)

\* the body of `for col in numeric_cols` up to the astype(float): the cells of
\* an object column go through the comma fix, the others are left as read
NumericPrepared(df) ==
    [df EXCEPT !.rows =
       [i \in 1..Len(df.rows) |->
          [c \in df.cols |->
             IF c \in numeric_cols /\ IsObjectColumn(df, c)
             THEN CommaToPeriod(df.rows[i][c])
             ELSE df.rows[i][c]]]]

\* a + b on float64: NaN if either is NaN
FloatAdd(a, b) == IF IsNa(a) \/ IsNa(b) THEN Na ELSE Num(FracAdd(a.v, b.v))

VelocidadTotal(row) == FloatAdd(row["velocidad_bajada"], row["velocidad_subida"])

\* the classifier with the CABLE test moved ahead of the FIBRA test
ClasificarCableFirst(x) ==
    IF IsNa(x) THEN <<"O", "T", "R", "A">>
    ELSE
      LET tec == Upper(AsStr(x))
      IN  IF tec \in {<<"A", "D", "S", "L">>, <<"X", "D", "S", "L">>, <<"D", "S", "L">>}
          THEN <<"C", "O", "B", "R", "E">>
          ELSE IF Contains(tec, <<"C", "A", "B", "L", "E">>)
          THEN <<"C", "A", "B", "L", "E">>
          ELSE IF Contains(tec, <<"F", "I", "B", "R", "A">>)
          THEN <<"F", "I", "B", "R", "A">>
          ELSE IF Contains(tec, <<"S", "A", "T", "E", "L", "I", "T", "A", "L">>)
          THEN <<"S", "A", "T", "E", "L", "I", "T", "A", "L">>
          ELSE IF \/ Contains(tec, <<"W", "I", "F", "I">>)
                  \/ Contains(tec, <<"I", "N", "A", "L", "A", "M", "B", "R", "I", "C", "O">>)
          THEN <<"I", "N", "A", "L", "Á", "M", "B", "R", "I", "C", "A">>
          ELSE <<"O", "T", "R", "A">>

\* _clasificar_tecnologia: first match wins
_clasificar_tecnologia(x) ==
    IF IsNa(x) THEN <<"O", "T", "R", "A">>
    ELSE
      LET tec == Upper(AsStr(x))
      IN  IF tec \in {<<"A", "D", "S", "L">>, <<"X", "D", "S", "L">>, <<"D", "S", "L">>}
          THEN <<"C", "O", "B", "R", "E">>
          ELSE IF Contains(tec, <<"F", "I", "B", "R", "A">>)
          THEN <<"F", "I", "B", "R", "A">>
          ELSE IF Contains(tec, <<"S", "A", "T", "E", "L", "I", "T", "A", "L">>)
          THEN <<"S", "A", "T", "E", "L", "I", "T", "A", "L">>
          ELSE IF \/ Contains(tec, <<"W", "I", "F", "I">>)
                  \/ Contains(tec, <<"I", "N", "A", "L", "A", "M", "B", "R", "I", "C", "O">>)
          THEN <<"I", "N", "A", "L", "Á", "M", "B", "R", "I", "C", "A">>
          ELSE IF Contains(tec, <<"C", "A", "B", "L", "E">>)
          THEN <<"C", "A", "B", "L", "E">>
          ELSE <<"O", "T", "R", "A">>

TipoTecnologia(row) == Str(_clasificar_tecnologia(row["tecnologia"]))

transform_accesos(df0) ==
    IF ~(accesos_cols_to_drop \subseteq df0.cols)
    THEN Result(Raise("KeyError", 78), NoFrame)
    ELSE
      LET df1 == DropColumns(df0, accesos_cols_to_drop)
          df2 == RenameColumns(df1, [c \in df1.cols |-> NormalizeColumn(c)])
          df3 == RenameColumns(df2, [c \in df2.cols |-> RenameAccesos(c)])
          df4 == MapColumns(df3, accesos_text_cols,
                            [x \in CellsOf(df3) |-> AsStringDtype(x)])
          df5 == NumericPrepared(df4)
      IN  IF \E i \in 1..Len(df5.rows) :
                \E c \in numeric_cols \cap df5.cols : FloatRaises(df5.rows[i][c])
          THEN Result(Raise("ValueError", 98), NoFrame)
          ELSE
            LET df6 == MapColumns(df5, numeric_cols,
                                  [x \in CellsOf(df5) |-> AsFloat(x)])
            IN  IF ~({"velocidad_bajada", "velocidad_subida"} \subseteq df6.cols)
                THEN Result(Raise("KeyError", 101), NoFrame)
                ELSE IF "tecnologia" \notin df6.cols
                THEN Result(Raise("KeyError", 102), NoFrame)
                ELSE
                  LET df7 == WithColumn(df6, "velocidad_total",
                                        [r \in RowsOf(df6) |-> VelocidadTotal(r)])
                  IN  Result(NoError,
                             WithColumn(df7, "tipo_tecnologia",
                                        [r \in RowsOf(df7) |-> TipoTecnologia(r)]))

----------------------------------------------------------------------------
(* merge_datasets                                                           *)

join_keys == <<"ano", "trimestre", "departamento", "municipio", "proveedor">>

KeyColumns == {join_keys[k] : k \in 1..Len(join_keys)}

KeyOf(row) == [k \in 1..Len(join_keys) |-> row[join_keys[k]]]

\* order of two cells of a key column (numbers by value, text by code point,
\* a missing value last)
CellLess(x, y) ==
    IF IsNa(x) THEN FALSE
    ELSE IF IsNa(y) THEN TRUE
    ELSE IF x.t = "num" /\ y.t = "num" THEN x.v[1] * y.v[2] < y.v[1] * x.v[2]
    ELSE IF x.t = "str" /\ y.t = "str" THEN LexLess(x.v, y.v)
    ELSE x.t = "num" /\ y.t = "str"

RECURSIVE KeyLessFrom(_, _, _)
KeyLessFrom(a, b, k) ==
    IF k > Len(join_keys) THEN FALSE
    ELSE IF a[k] = b[k] THEN KeyLessFrom(a, b, k + 1)
    ELSE CellLess(a[k], b[k])

KeyLess(a, b) == KeyLessFrom(a, b, 1)

RECURSIVE SortedKeys(_)
SortedKeys(S) ==
    IF S = {} THEN << >>
    ELSE LET m == CHOOSE x \in S : \A y \in S \ {x} : KeyLess(x, y)
         IN  <<m>> \o SortedKeys(S \ {m})

\* groupby(keys, dropna=False): a missing value is a key value like any other
GroupKeysKeepNa(df) == {KeyOf(df.rows[i]) : i \in 1..Len(df.rows)}

\* groupby(keys) with the default dropna=True: a row with a missing value in
\* any key column belongs to no group
GroupKeys(df) ==
    {KeyOf(df.rows[i]) : i \in {j \in 1..Len(df.rows) :
                                  \A c \in KeyColumns : ~IsNa(df.rows[j][c])}}

RowsOfGroup(df, key) ==
    LET in(r) == KeyOf(r) = key
    IN  SelectSeq(df.rows, in)

\* the cells of column c in a group that are not missing
Present(rows, c) == {i \in 1..Len(rows) : ~IsNa(rows[i][c])}

RECURSIVE FracSum(_, _, _)
FracSum(rows, c, I) ==
    IF I = {} THEN <<0, 1>>
    ELSE LET i == CHOOSE j \in I : TRUE
         IN  FracAdd(rows[i][c].v, FracSum(rows, c, I \ {i}))

\* any(skipna=False): Kleene OR over the group, null when no True and some null
AggAnyKleene(rows, c) ==
    IF \E i \in 1..Len(rows) : rows[i][c] = Bool(TRUE) THEN Bool(TRUE)
    ELSE IF \E i \in 1..Len(rows) : IsNa(rows[i][c]) THEN Na
    ELSE Bool(FALSE)

\* 'any': missing values are skipped, so a group without a True is False
AggAny(rows, c) == Bool(\E i \in 1..Len(rows) : rows[i][c] = Bool(TRUE))

\* 'mean': missing values are skipped; NaN when nothing is left
AggMean(rows, c) ==
    IF Present(rows, c) = {} THEN Na
    ELSE Num(FracDiv(FracSum(rows, c, Present(rows, c)), Cardinality(Present(rows, c))))

\* 'sum': missing values are skipped; 0 when nothing is left
AggSum(rows, c) == Num(FracSum(rows, c, Present(rows, c)))

\* lambda x: ', '.join(sorted(set(x.dropna())))
AggJoin(rows, c) ==
    Str(JoinComma(SortedTexts({rows[i][c].v : i \in Present(rows, c)})))

cobertura_agg_cols ==
    {"centro_poblado", "total_tecnologias", "tiene_4g_o_mas"} \cup tech_cols

CoberturaAgg(rows, c) ==
    CASE c \in KeyColumns -> rows[1][c]
      [] c = "centro_poblado" -> AggJoin(rows, c)
      [] c = "total_tecnologias" -> AggMean(rows, c)
      [] OTHER -> AggAny(rows, c)

accesos_agg_cols ==
    {"tecnologia", "velocidad_bajada", "velocidad_subida", "no_de_accesos",
     "velocidad_total", "tipo_tecnologia"}

AccesosAgg(rows, c) ==
    CASE c \in KeyColumns -> rows[1][c]
      [] c \in {"tecnologia", "tipo_tecnologia"} -> AggJoin(rows, c)
      [] c = "no_de_accesos" -> AggSum(rows, c)
      [] OTHER -> AggMean(rows, c)

\* df_cobertura.groupby(keys, as_index=False).agg(...): one row per group, in
\* key order
cobertura_grouped(df) ==
    LET keys == SortedKeys(GroupKeys(df))
        cols == KeyColumns \cup cobertura_agg_cols
    IN  [cols |-> cols,
         rows |-> [k \in 1..Len(keys) |->
                     [c \in cols |-> CoberturaAgg(RowsOfGroup(df, keys[k]), c)]]]

\* df_accesos.groupby(keys, as_index=False).agg(...)
accesos_grouped(df) ==
    LET keys == SortedKeys(GroupKeys(df))
        cols == KeyColumns \cup accesos_agg_cols
    IN  [cols |-> cols,
         rows |-> [k \in 1..Len(keys) |->
                     [c \in cols |-> AccesosAgg(RowsOfGroup(df, keys[k]), c)]]]

\* the rows pd.merge(how='inner') makes of one left row: one per right row with
\* an equal key
RECURSIVE JoinedWith(_, _, _)
JoinedWith(l, right, cols) ==
    IF right = << >> THEN << >>
    ELSE (IF KeyOf(Head(right)) = KeyOf(l)
          THEN <<[c \in cols |-> IF c \in DOMAIN l THEN l[c] ELSE Head(right)[c]]>>
          ELSE << >>) \o JoinedWith(l, Tail(right), cols)

RECURSIVE InnerRows(_, _, _)
InnerRows(left, right, cols) ==
    IF left = << >> THEN << >>
    ELSE JoinedWith(Head(left), right, cols) \o InnerRows(Tail(left), right, cols)

\* pd.merge(how='left'): a left row without a match is kept, its right columns null
LeftMerge(left, right) ==
    LET cols == left.cols \cup right.cols
        alone(l) == [c \in cols |-> IF c \in DOMAIN l THEN l[c] ELSE Na]
        RECURSIVE rowsFrom(_)
        rowsFrom(ls) ==
            IF ls = << >> THEN << >>
            ELSE (IF JoinedWith(Head(ls), right.rows, cols) = << >>
                  THEN <<alone(Head(ls))>>
                  ELSE JoinedWith(Head(ls), right.rows, cols)) \o rowsFrom(Tail(ls))
    IN  [cols |-> cols, rows |-> rowsFrom(left.rows)]

\* pd.merge(left, right, on=join_keys, how='inner')
InnerMerge(left, right) ==
    [cols |-> left.cols \cup right.cols,
     rows |-> InnerRows(left.rows, right.rows, left.cols \cup right.cols)]

merge_datasets(df_cobertura, df_accesos) ==
    IF ~(KeyColumns \cup cobertura_agg_cols \subseteq df_cobertura.cols)
    THEN Result(Raise("KeyError", 131), NoFrame)
    ELSE IF ~(KeyColumns \cup accesos_agg_cols \subseteq df_accesos.cols)
    THEN Result(Raise("KeyError", 147), NoFrame)
    ELSE Result(NoError,
                InnerMerge(cobertura_grouped(df_cobertura), accesos_grouped(df_accesos)))

----------------------------------------------------------------------------
(* run_pipeline.  pc names the step about to run.                           *)

COBERTURA_CSV == "cobertura_movil_ETL.csv"
ACCESOS_CSV == "accesos_ETL.csv"
MERGE_CSV == "merge_ETL.csv"

OutputFiles == {COBERTURA_CSV, ACCESOS_CSV, MERGE_CSV}

\* run_pipeline with the merge moved ahead of the two intermediate writes
StepAfterMergeFirst(step) ==
    CASE step = "extract" -> "transform_cobertura"
      [] step = "transform_cobertura" -> "transform_accesos"
      [] step = "transform_accesos" -> "merge"
      [] step = "merge" -> "load_final"
      [] step = "load_final" -> "load_cobertura"
      [] step = "load_cobertura" -> "load_accesos"
      [] step = "load_accesos" -> "done"

\* the statements of run_pipeline, in program order
StepAfter(step) ==
    CASE step = "extract" -> "transform_cobertura"
      [] step = "transform_cobertura" -> "transform_accesos"
      [] step = "transform_accesos" -> "load_cobertura"
      [] step = "load_cobertura" -> "load_accesos"
      [] step = "load_accesos" -> "merge"
      [] step = "merge" -> "load_final"
      [] step = "load_final" -> "done"

\* an exception leaves run_pipeline: nothing catches it
Abort(err) ==
    /\ pc' = "failed"
    /\ error' = [type |-> err.type, line |-> err.line, step |-> pc]

Continue ==
    /\ pc' = StepAfter(pc)
    /\ error' = error

extract_data ==
    /\ pc = "extract"
    /\ IF ~disk.cobertura.readable
       THEN Abort(Raise("FileNotFoundError", 16))
            /\ UNCHANGED <<cobertura_movil, accesos>>
       ELSE IF ~disk.accesos.readable
       THEN Abort(Raise("FileNotFoundError", 17))
            /\ cobertura_movil' = read_csv(disk.cobertura)
            /\ UNCHANGED accesos
       ELSE Continue
            /\ cobertura_movil' = read_csv(disk.cobertura)
            /\ accesos' = read_csv(disk.accesos)
    /\ UNCHANGED <<disk, df_final, cobertura_transformed, accesos_transformed, files>>

TransformCobertura ==
    /\ pc = "transform_cobertura"
    /\ LET r == transform_cobertura_movil(cobertura_movil)
       IN  IF r.error # NoError
           THEN Abort(r.error) /\ UNCHANGED cobertura_transformed
           ELSE Continue /\ cobertura_transformed' = r.df
    /\ UNCHANGED <<disk, cobertura_movil, accesos, df_final, accesos_transformed, files>>

TransformAccesos ==
    /\ pc = "transform_accesos"
    /\ LET r == transform_accesos(accesos)
       IN  IF r.error # NoError
           THEN Abort(r.error) /\ UNCHANGED accesos_transformed
           ELSE Continue /\ accesos_transformed' = r.df
    /\ UNCHANGED <<disk, cobertura_movil, accesos, df_final, cobertura_transformed, files>>

\* df.to_csv(filename, index=False): the file is written whole, or the write
\* fails with nothing on disk, or it fails after part of the file is on disk
load_data(filename) ==
    /\ \/ Continue /\ files' = [files EXCEPT ![filename] = "complete"]
       \/ Abort(Raise("OSError", 172)) /\ files' = files
       \/ Abort(Raise("OSError", 172)) /\ files' = [files EXCEPT ![filename] = "partial"]
    /\ UNCHANGED <<disk, cobertura_movil, accesos, df_final,
                   cobertura_transformed, accesos_transformed>>

LoadCobertura == pc = "load_cobertura" /\ load_data(COBERTURA_CSV)

LoadAccesos == pc = "load_accesos" /\ load_data(ACCESOS_CSV)

MergeDatasets ==
    /\ pc = "merge"
    /\ LET r == merge_datasets(cobertura_transformed, accesos_transformed)
       IN  IF r.error # NoError
           THEN Abort(r.error) /\ UNCHANGED df_final
           ELSE Continue /\ df_final' = r.df
    /\ UNCHANGED <<disk, cobertura_movil, accesos,
                   cobertura_transformed, accesos_transformed, files>>

LoadFinal == pc = "load_final" /\ load_data(MERGE_CSV)

Next ==
    \/ extract_data
    \/ TransformCobertura
    \/ TransformAccesos
    \/ LoadCobertura
    \/ LoadAccesos
    \/ MergeDatasets
    \/ LoadFinal

\* the state after ConnectivityETL() with the input files d on disk
Constructed(d) ==
    /\ pc = "extract"
    /\ disk = d
    /\ cobertura_movil = NoFrame
    /\ accesos = NoFrame
    /\ df_final = NoFrame
    /\ cobertura_transformed = NoFrame
    /\ accesos_transformed = NoFrame
    /\ files = [f \in OutputFiles |-> "absent"]
    /\ error = [type |-> "none", line |-> 0, step |-> "none"]

----------------------------------------------------------------------------
(* Input files.                                                             *)

CoberturaKept ==
    {"AÑO", "TRIMESTRE", "PROVEEDOR", "DEPARTAMENTO", "MUNICIPIO", "CENTRO POBLADO",
     "COBERTURA 2G", "COBERTURA 3G", "COBERTURA HSPA+, HSPA+DC", "COBERTUTA 4G",
     "COBERTURA LTE", "COBERTURA 5G"}

CoberturaHeader == CoberturaKept \cup cobertura_cols_to_drop

RawTechCols ==
    {"COBERTURA 2G", "COBERTURA 3G", "COBERTURA HSPA+, HSPA+DC", "COBERTUTA 4G",
     "COBERTURA LTE", "COBERTURA 5G"}

AccesosKept ==
    {"AÑO", "TRIMESTRE", "PROVEEDOR", "DEPARTAMENTO", "MUNICIPIO", "TECNOLOGIA",
     "VELOCIDAD BAJADA", "VELOCIDAD SUBIDA", "NO DE ACCESOS"}

AccesosHeader == AccesosKept \cup accesos_cols_to_drop

RawNumericCols == {"VELOCIDAD BAJADA", "VELOCIDAD SUBIDA", "NO DE ACCESOS"}

\* the join key of the sample rows: 2023, quarter 1, ANTIOQUIA, MEDELLIN, CLARO
SampleKey ==
    <<<<"2", "0", "2", "3">>, <<"1">>,
      <<"A", "N", "T", "I", "O", "Q", "U", "I", "A">>,
      <<"M", "E", "D", "E", "L", "L", "I", "N">>,
      <<"C", "L", "A", "R", "O">>>>

\* the same place served by another provider
OtherKey == [SampleKey EXCEPT ![5] = <<"T", "I", "G", "O">>]

\* the sample key with the k-th key column left empty
NullKey(k) == [SampleKey EXCEPT ![k] = << >>]

RawKeyCell(key, c) ==
    CASE c = "AÑO" -> key[1]
      [] c = "TRIMESTRE" -> key[2]
      [] c = "DEPARTAMENTO" -> key[3]
      [] c = "MUNICIPIO" -> key[4]
      [] c = "PROVEEDOR" -> key[5]

RawKeyCols == {"AÑO", "TRIMESTRE", "DEPARTAMENTO", "MUNICIPIO", "PROVEEDOR"}

\* a row of the coverage file: its key, its populated centre, its six markers
CoberturaRow(key, centro, markers) ==
    [c \in CoberturaHeader |->
       CASE c \in RawKeyCols -> RawKeyCell(key, c)
         [] c = "CENTRO POBLADO" -> centro
         [] c \in RawTechCols -> markers[c]
         [] c = "CABECERA MUNICIPAL" -> <<"S">>
         [] OTHER -> <<"5">>]

\* a row of the access file: its key, its technology, its three numeric cells
AccesosRow(key, tecnologia, numbers) ==
    [c \in AccesosHeader |->
       CASE c \in RawKeyCols -> RawKeyCell(key, c)
         [] c = "TECNOLOGIA" -> tecnologia
         [] c \in RawNumericCols -> numbers[c]
         [] c = "SEGMENTO" -> <<"R">>
         [] OTHER -> <<"5">>]

Markers(m2g, m3g, mhspa, m4g, mlte, m5g) ==
    [c \in RawTechCols |->
       CASE c = "COBERTURA 2G" -> m2g
         [] c = "COBERTURA 3G" -> m3g
         [] c = "COBERTURA HSPA+, HSPA+DC" -> mhspa
         [] c = "COBERTUTA 4G" -> m4g
         [] c = "COBERTURA LTE" -> mlte
         [] c = "COBERTURA 5G" -> m5g]

Numbers(bajada, subida, n) ==
    [c \in RawNumericCols |->
       CASE c = "VELOCIDAD BAJADA" -> bajada
         [] c = "VELOCIDAD SUBIDA" -> subida
         [] c = "NO DE ACCESOS" -> n]

tFIBRA == <<"F", "I", "B", "R", "A">>
tCABLE == <<"C", "A", "B", "L", "E">>

SampleCoberturaRow ==
    CoberturaRow(SampleKey, <<"A">>, Markers(<<"N">>, <<"S">>, << >>, <<"S">>, <<"N">>, <<"N">>))

SampleAccesosRow ==
    AccesosRow(SampleKey, tFIBRA,
               Numbers(<<"5", "0", ",", "0">>, <<"1", "0", ",", "0">>, <<"1", "0", "0">>))

SampleCobertura == CsvFile(CoberturaHeader, <<SampleCoberturaRow>>)
SampleAccesos == CsvFile(AccesosHeader, <<SampleAccesosRow>>)

\* the file with only the columns cols
Project(file, cols) ==
    CsvFile(cols, [i \in 1..Len(file.rows) |-> [c \in cols |-> file.rows[i][c]]])

\* n copies of one row
Copies(row, n) == [i \in 1..n |-> row]

----------------------------------------------------------------------------
(* Spec: the sample rows under every header the files may have - any of the *)
(* columns to drop absent, a required column absent, a file unreadable.     *)

CoberturaHeaders ==
    {(CoberturaKept \ miss) \cup present :
        miss \in {{}, {"COBERTURA 5G"}, {"MUNICIPIO"}},
        present \in SUBSET cobertura_cols_to_drop}

AccesosHeaders ==
    {(AccesosKept \ miss) \cup present :
        miss \in {{}, {"TECNOLOGIA"}, {"PROVEEDOR"}},
        present \in SUBSET accesos_cols_to_drop}

Init ==
    \E cob \in {NoFile} \cup {Project(SampleCobertura, h) : h \in CoberturaHeaders},
       acc \in {NoFile} \cup {Project(SampleAccesos, h) : h \in AccesosHeaders} :
        Constructed([cobertura |-> cob, accesos |-> acc])

Spec == Init /\ [][Next]_vars

----------------------------------------------------------------------------
(* SpecCobertura: coverage rows whose marker cells vary.                    *)

MarkerChars == {"S", "N", "A", "s", "n", " "}
MarkerTexts == TextsUpTo(MarkerChars, MaxMarkerLen)
PlainMarkers == {<<"S">>, <<"N">>, << >>}

\* one marker cell takes every short text, the other five share a plain value
OneMarkerRows ==
    {<<CoberturaRow(SampleKey, <<"A">>, [x \in RawTechCols |-> IF x = c THEN t ELSE o])>> :
        c \in RawTechCols, t \in MarkerTexts, o \in PlainMarkers}

\* the six marker cells take every combination of plain values; the row may be
\* repeated in the file
AllMarkerRows ==
    {Copies(CoberturaRow(SampleKey, <<"A">>, m), n) :
        m \in [RawTechCols -> PlainMarkers], n \in 1..MaxCopies}

InitCobertura ==
    \E rows \in OneMarkerRows \cup AllMarkerRows :
        Constructed([cobertura |-> CsvFile(CoberturaHeader, rows),
                     accesos |-> SampleAccesos])

SpecCobertura == InitCobertura /\ [][Next]_vars

----------------------------------------------------------------------------
(* SpecAccesos: access rows whose numeric cells or technology vary.         *)

NumChars == {"1", "5", ",", ".", "x"}
NumTexts == TextsUpTo(NumChars, MaxNumLen)

SampleNumbers == Numbers(<<"5", "0", ",", "0">>, <<"1", "0", ",", "0">>, <<"1", "0", "0">>)

\* one numeric cell takes every short text; a second row, when there is one,
\* holds in the same column nothing or the same text with periods for commas
NumericRows ==
    LET row(c, t) ==
            AccesosRow(SampleKey, tFIBRA, [SampleNumbers EXCEPT ![c] = t])
    IN  {<<row(c, t)>> : c \in RawNumericCols, t \in NumTexts}
        \cup {<<row(c, t), row(c, u[t])>> :
                c \in RawNumericCols, t \in NumTexts,
                u \in {[x \in NumTexts |-> << >>],
                       [x \in NumTexts |-> ReplaceComma(x)]}}

TecWords ==
    {<<"A", "D", "S", "L">>,
     <<"x", "D", "S", "L">>,
     <<"D", "S", "L">>,
     <<"F", "I", "B", "R", "A">>,
     <<"f", "i", "b", "e", "r">>,
     <<"S", "A", "T", "E", "L", "I", "T", "A", "L">>,
     <<"S", "A", "T", "E", "L", "L", "I", "T", "E">>,
     <<"W", "i", "F", "i">>,
     <<"W", "I", "R", "E", "L", "E", "S", "S">>,
     <<"I", "N", "A", "L", "A", "M", "B", "R", "I", "C", "O">>,
     <<"c", "a", "b", "l", "e">>,
     <<" ">>}

RECURSIVE TecTextsUpTo(_)
TecTextsUpTo(n) ==
    IF n = 0 THEN {<< >>}
    ELSE LET shorter == TecTextsUpTo(n - 1)
         IN  shorter \cup {s \o w : s \in shorter, w \in TecWords}

TecTexts == TecTextsUpTo(MaxTecWords)

TecnologiaRows == {<<AccesosRow(SampleKey, t, SampleNumbers)>> : t \in TecTexts}

InitAccesos ==
    \E rows \in NumericRows \cup TecnologiaRows :
        Constructed([cobertura |-> SampleCobertura,
                     accesos |-> CsvFile(AccesosHeader, rows)])

SpecAccesos == InitAccesos /\ [][Next]_vars

----------------------------------------------------------------------------
(* SpecMerge: both files hold up to MaxRows rows together, over two keys    *)
(* and a key with one column empty.                                         *)

RECURSIVE SeqsUpTo(_, _)
SeqsUpTo(S, n) ==
    IF n = 0 THEN {<< >>}
    ELSE LET shorter == SeqsUpTo(S, n - 1)
         IN  shorter \cup {Append(q, x) : q \in shorter, x \in S}

AllNa == Markers(<< >>, << >>, << >>, << >>, << >>, << >>)
Mixed == Markers(<<"S">>, <<"N">>, << >>, <<"N">>, << >>, <<"N">>)
Only4g == Markers(<<"N">>, <<"N">>, <<"N">>, <<"S">>, << >>, << >>)

CoberturaUniverse(k) ==
    {CoberturaRow(SampleKey, <<"A">>, AllNa),
     CoberturaRow(SampleKey, <<"B">>, Mixed),
     CoberturaRow(OtherKey, <<"A">>, Only4g),
     CoberturaRow(NullKey(k), <<"A">>, Only4g)}

OtherNumbers == Numbers(<< >>, <<"2", ".", "5">>, <<"7">>)

AccesosUniverse(k) ==
    {AccesosRow(SampleKey, tFIBRA, SampleNumbers),
     AccesosRow(SampleKey, tCABLE, OtherNumbers),
     AccesosRow(OtherKey, << >>, SampleNumbers),
     AccesosRow(NullKey(k), tFIBRA, SampleNumbers)}

InitMerge ==
    \E k \in 1..Len(join_keys) :
      \E cob \in SeqsUpTo(CoberturaUniverse(k), MaxRows) :
        \E acc \in SeqsUpTo(AccesosUniverse(k), MaxRows - Len(cob)) :
            Constructed([cobertura |-> CsvFile(CoberturaHeader, cob),
                         accesos |-> CsvFile(AccesosHeader, acc)])

SpecMerge == InitMerge /\ [][Next]_vars

----------------------------------------------------------------------------
(* Properties of run_pipeline (checked under Spec).                         *)

Written(f) == files[f] # "absent"

\* the step a failed run failed in, or the step a live run is about to take
AtStep == IF pc = "failed" THEN error.step ELSE pc

NormalizersCompleted == AtStep \in {"load_cobertura", "load_accesos", "merge", "load_final", "done"}
MergeCompleted == AtStep \in {"load_final", "done"}

\* C1, as stated: no output file is written before merge_datasets has completed;
\* a run that fails in any step up to and including the merge has produced no
\* output file; a run that completes has produced all three.
C1_NoOutputBeforeMerge ==
    /\ (\E f \in OutputFiles : Written(f)) => MergeCompleted
    /\ (pc = "failed" /\ ~MergeCompleted) => \A f \in OutputFiles : ~Written(f)
    /\ pc = "done" => \A f \in OutputFiles : files[f] = "complete"

\* C1, amended: the two normalized datasets are written after both normalizers
\* and before the merge, coverage first; the merged dataset is written after the
\* merge.  A run that fails in the loader or a normalizer has produced no output
\* file, a run that fails in the merge has produced exactly the two normalized
\* files, and a run that completes has produced all three.
C1_WritesInProgramOrder ==
    /\ (\E f \in OutputFiles : Written(f)) => NormalizersCompleted
    /\ Written(ACCESOS_CSV) => files[COBERTURA_CSV] = "complete"
    /\ Written(MERGE_CSV) => MergeCompleted /\ files[ACCESOS_CSV] = "complete"
    /\ (pc = "failed" /\ ~NormalizersCompleted) => \A f \in OutputFiles : ~Written(f)
    /\ AtStep = "merge" =>
          /\ files[COBERTURA_CSV] = "complete"
          /\ files[ACCESOS_CSV] = "complete"
          /\ ~Written(MERGE_CSV)
    /\ pc = "done" => \A f \in OutputFiles : files[f] = "complete"

\* a run whose merge failed, with both normalized files already on disk
C1_Witness ==
    /\ pc = "failed"
    /\ error.step = "merge"
    /\ files[COBERTURA_CSV] = "complete"
    /\ files[ACCESOS_CSV] = "complete"

\* C2: in both normalizers, dropping the identifying columns tolerates a missing
\* column: a dataset that lacks one of them does not make the drop raise.
C2_DropToleratesMissing ==
    /\ (error.step = "transform_cobertura"
        /\ ~(cobertura_cols_to_drop \subseteq cobertura_movil.cols)) => error.line # 28
    /\ (error.step = "transform_accesos"
        /\ ~(accesos_cols_to_drop \subseteq accesos.cols)) => error.line # 78

----------------------------------------------------------------------------
(* Properties of transform_cobertura_movil (checked under SpecCobertura).   *)

CoberturaDone == cobertura_transformed # NoFrame

\* the column a raw marker column becomes
TechColOf(raw) == RenameCobertura(NormalizeColumn(raw))

\* what C3 says a raw cell becomes
MarkerExpected(x) ==
    IF x.t = "str" /\ Upper(Strip(x.v)) = <<"S">> THEN Bool(TRUE)
    ELSE IF x.t = "str" /\ Upper(Strip(x.v)) = <<"N">> THEN Bool(FALSE)
    ELSE Na

MarkersAgree(out, raw) ==
    \A c \in RawTechCols : out[TechColOf(c)] = MarkerExpected(raw[c])

\* C3: every marker of every normalized row is true for "S", false for "N"
\* (trimmed, upper-cased) and null for anything else, a missing cell included;
\* every raw row has its normalized row and every normalized row its raw row.
C3_MarkerMapping ==
    CoberturaDone =>
      /\ \A i \in 1..Len(cobertura_transformed.rows) :
            \E j \in 1..Len(cobertura_movil.rows) :
                MarkersAgree(cobertura_transformed.rows[i], cobertura_movil.rows[j])
      /\ \A j \in 1..Len(cobertura_movil.rows) :
            \E i \in 1..Len(cobertura_transformed.rows) :
                MarkersAgree(cobertura_transformed.rows[i], cobertura_movil.rows[j])

\* a cell whose text is present and neither "S" nor "N" became null
C3_Witness ==
    /\ CoberturaDone
    /\ \E j \in 1..Len(cobertura_movil.rows) : \E c \in RawTechCols :
          /\ cobertura_movil.rows[j][c].t = "str"
          /\ Upper(Strip(cobertura_movil.rows[j][c].v)) \notin {<<"S">>, <<"N">>}
          /\ \E i \in 1..Len(cobertura_transformed.rows) :
                cobertura_transformed.rows[i][TechColOf(c)] = Na

\* C4: tiene_4g_o_mas is true iff one of 4G, LTE, 5G is true, false iff all
\* three are false, and null when none is true and one is null.
C4_Tiene4gThreeValued ==
    CoberturaDone =>
      \A i \in 1..Len(cobertura_transformed.rows) :
        LET r == cobertura_transformed.rows[i]
            ms == {r["cobertura_4g"], r["cobertura_lte"], r["cobertura_5g"]}
        IN  /\ r["tiene_4g_o_mas"] = Bool(TRUE) <=> Bool(TRUE) \in ms
            /\ r["tiene_4g_o_mas"] = Bool(FALSE) <=> ms = {Bool(FALSE)}
            /\ r["tiene_4g_o_mas"] = Na <=> (Bool(TRUE) \notin ms /\ Na \in ms)

\* a row with a false and a null among the three, and so a null result
C4_Witness ==
    /\ CoberturaDone
    /\ \E i \in 1..Len(cobertura_transformed.rows) :
        LET r == cobertura_transformed.rows[i]
        IN  /\ r["cobertura_4g"] = Bool(FALSE)
            /\ r["cobertura_lte"] = Na
            /\ r["tiene_4g_o_mas"] = Na

One(x) == IF x = Bool(TRUE) THEN 1 ELSE 0

\* C5: total_tecnologias is the number of true markers of the row, a null
\* marker adding nothing, and lies in 0..6.
C5_TotalCountsTrue ==
    CoberturaDone =>
      \A i \in 1..Len(cobertura_transformed.rows) :
        LET r == cobertura_transformed.rows[i]
            n == One(r["cobertura_2g"]) + One(r["cobertura_3g"])
                 + One(r["cobertura_hspa+,_hspa+dc"]) + One(r["cobertura_4g"])
                 + One(r["cobertura_lte"]) + One(r["cobertura_5g"])
        IN  /\ r["total_tecnologias"] = Num(<<n, 1>>)
            /\ n \in 0..6

\* a row with null, false and true markers
C5_Witness ==
    /\ CoberturaDone
    /\ \E i \in 1..Len(cobertura_transformed.rows) :
        LET r == cobertura_transformed.rows[i]
        IN  /\ r["cobertura_2g"] = Na
            /\ r["cobertura_3g"] = Bool(FALSE)
            /\ r["cobertura_4g"] = Bool(TRUE)
            /\ r["total_tecnologias"] = Num(<<2, 1>>)

----------------------------------------------------------------------------
(* Properties of transform_accesos (checked under SpecAccesos).             *)

AccesosDone == accesos_transformed # NoFrame
AccesosAttempted == pc \notin {"extract", "transform_cobertura", "transform_accesos"}

\* the six labels, as the code spells them: COPPER, FIBER, SATELLITE, WIRELESS,
\* CABLE, OTHER
COBRE == <<"C", "O", "B", "R", "E">>
FIBRA == <<"F", "I", "B", "R", "A">>
SATELITAL == <<"S", "A", "T", "E", "L", "I", "T", "A", "L">>
INALAMBRICA == <<"I", "N", "A", "L", "Á", "M", "B", "R", "I", "C", "A">>
CABLE == <<"C", "A", "B", "L", "E">>
OTRA == <<"O", "T", "R", "A">>

Labels == {COBRE, FIBRA, SATELITAL, INALAMBRICA, CABLE, OTRA}

Rule(exact, subs, label) == [exact |-> exact, subs |-> subs, label |-> label]

RuleMatches(rule, u) == u \in rule.exact \/ \E w \in rule.subs : Contains(u, w)

\* the label of the first rule that matches the upper-cased text, else OTHER
RECURSIVE FirstMatch(_, _)
FirstMatch(rules, u) ==
    IF rules = << >> THEN OTRA
    ELSE IF RuleMatches(Head(rules), u) THEN Head(rules).label
    ELSE FirstMatch(Tail(rules), u)

RuleLabel(rules, x) == IF x.t = "str" THEN FirstMatch(rules, Upper(x.v)) ELSE OTRA

CopperRule == Rule({<<"A", "D", "S", "L">>, <<"X", "D", "S", "L">>, <<"D", "S", "L">>}, {}, COBRE)

\* the rule list as C6 states it
StatedRules ==
    <<CopperRule,
      Rule({}, {<<"F", "I", "B", "E", "R">>, <<"F", "I", "B", "R", "A">>}, FIBRA),
      Rule({}, {<<"S", "A", "T", "E", "L", "L", "I", "T", "E">>, <<"S", "A", "T", "E", "L", "I", "T", "A", "L">>}, SATELITAL),
      Rule({}, {<<"W", "I", "F", "I">>, <<"W", "I", "R", "E", "L", "E", "S", "S">>,
                <<"I", "N", "A", "L", "A", "M", "B", "R", "I", "C", "O">>}, INALAMBRICA),
      Rule({}, {<<"C", "A", "B", "L", "E">>}, CABLE)>>

\* the rule list without the English substrings
SpanishRules ==
    <<CopperRule,
      Rule({}, {<<"F", "I", "B", "R", "A">>}, FIBRA),
      Rule({}, {<<"S", "A", "T", "E", "L", "I", "T", "A", "L">>}, SATELITAL),
      Rule({}, {<<"W", "I", "F", "I">>, <<"I", "N", "A", "L", "A", "M", "B", "R", "I", "C", "O">>}, INALAMBRICA),
      Rule({}, {<<"C", "A", "B", "L", "E">>}, CABLE)>>

ClassifiedBy(rules) ==
    AccesosDone =>
      /\ Len(accesos_transformed.rows) = Len(accesos.rows)
      /\ \A i \in 1..Len(accesos.rows) :
            /\ accesos_transformed.rows[i]["tipo_tecnologia"]
                 = Str(RuleLabel(rules, accesos.rows[i]["TECNOLOGIA"]))
            /\ accesos_transformed.rows[i]["tipo_tecnologia"].v \in Labels

\* C6, as stated: the class of every row is the first match of the rule list
\* null -> OTHER; ADSL/xDSL/DSL -> COPPER; FIBER or FIBRA -> FIBER; SATELLITE or
\* SATELITAL -> SATELLITE; WIFI, WIRELESS or INALAMBRICO -> WIRELESS; CABLE ->
\* CABLE; else OTHER, case-insensitively, and is one of the six labels.
C6_ClassifierAsStated == ClassifiedBy(StatedRules)

\* C6, amended: the same ordered first-match rule list with the substrings the
\* code tests, FIBRA, SATELITAL, WIFI or INALAMBRICO, and CABLE (a name that
\* only contains FIBER, SATELLITE or WIRELESS is OTHER).
C6_ClassifierSpanish == ClassifiedBy(SpanishRules)

\* a name holding both CABLE and FIBRA was classified FIBER
C6_Witness ==
    /\ AccesosDone
    /\ \E i \in 1..Len(accesos.rows) :
          /\ accesos.rows[i]["TECNOLOGIA"].t = "str"
          /\ Contains(Upper(accesos.rows[i]["TECNOLOGIA"].v), CABLE)
          /\ Contains(Upper(accesos.rows[i]["TECNOLOGIA"].v), FIBRA)
          /\ accesos_transformed.rows[i]["tipo_tecnologia"] = Str(FIBRA)

\* a numeric cell's text is missing / is a number once its commas are periods
RawMissing(t) == t \in NaTexts
RawIsNumber(t) == IsNumeral(ReplaceComma(t))

SomeBadNumber ==
    \E i \in 1..Len(disk.accesos.rows) : \E c \in RawNumericCols :
        /\ ~RawMissing(disk.accesos.rows[i][c])
        /\ ~RawIsNumber(disk.accesos.rows[i][c])

\* C9: a numeric text is parsed with its commas read as periods, so two texts
\* that differ only in that give the same number; a missing value becomes a
\* null number, never zero; a value that is present and not a number makes the
\* normalization fail, and nothing else does.
C9_NumericParsing ==
    /\ AccesosDone =>
         /\ ~SomeBadNumber
         /\ Len(accesos_transformed.rows) = Len(disk.accesos.rows)
         /\ \A c \in RawNumericCols : \A i \in 1..Len(disk.accesos.rows) :
              LET t == disk.accesos.rows[i][c]
                  out == accesos_transformed.rows[i][NormalizeColumn(c)]
              IN  /\ RawMissing(t) => out = Na
                  /\ ~RawMissing(t) => out = Num(NumeralValue(ReplaceComma(t)))
                  /\ \A j \in 1..Len(disk.accesos.rows) :
                        ReplaceComma(disk.accesos.rows[j][c]) = ReplaceComma(t)
                        => accesos_transformed.rows[j][NormalizeColumn(c)] = out
    /\ (AccesosAttempted /\ SomeBadNumber) =>
         /\ pc = "failed"
         /\ error.step = "transform_accesos"
         /\ error.type = "ValueError"
    /\ (AccesosAttempted /\ ~SomeBadNumber) => AccesosDone

\* "1,5" and "1.5" in one column, both read as 3/2
C9_Witness ==
    /\ AccesosDone
    /\ \E c \in RawNumericCols : \E i, j \in 1..Len(disk.accesos.rows) :
          /\ disk.accesos.rows[i][c] = <<"1", ",", "5">>
          /\ disk.accesos.rows[j][c] = <<"1", ".", "5">>
          /\ accesos_transformed.rows[i][NormalizeColumn(c)] = Num(<<3, 2>>)
          /\ accesos_transformed.rows[j][NormalizeColumn(c)] = Num(<<3, 2>>)

----------------------------------------------------------------------------
(* Properties of merge_datasets (checked under SpecMerge).                  *)

MergeDone == df_final # NoFrame

KeysOf(df) == {KeyOf(df.rows[i]) : i \in 1..Len(df.rows)}

\* C7: the keys of the merged output are exactly the keys present in both
\* groupings, each once.
C7_KeysAreIntersection ==
    MergeDone =>
      /\ KeysOf(df_final) = KeysOf(cobertura_grouped(cobertura_transformed))
                            \cap KeysOf(accesos_grouped(accesos_transformed))
      /\ \A i, j \in 1..Len(df_final.rows) :
            KeyOf(df_final.rows[i]) = KeyOf(df_final.rows[j]) => i = j

\* coverage grouped to two keys, access to one of them: one merged row
C7_Witness ==
    /\ MergeDone
    /\ Cardinality(KeysOf(cobertura_grouped(cobertura_transformed))) = 2
    /\ Cardinality(KeysOf(accesos_grouped(accesos_transformed))) = 1
    /\ Len(df_final.rows) = 1

BooleanAggCols == tech_cols \cup {"tiene_4g_o_mas"}

\* some normalized coverage row of key k has column c true
SomeRowTrue(k, c) ==
    \E i \in 1..Len(cobertura_transformed.rows) :
        /\ KeyOf(cobertura_transformed.rows[i]) = k
        /\ cobertura_transformed.rows[i][c] = Bool(TRUE)

GroupOrOf(df) ==
    \A g \in 1..Len(df.rows) : \A c \in BooleanAggCols :
        df.rows[g][c] = Bool(SomeRowTrue(KeyOf(df.rows[g]), c))

\* C8: in the grouped coverage data, and so in the merged output, each marker
\* and tiene_4g_o_mas is true iff some row of the group has it true, and false
\* otherwise, never null.
C8_GroupOrSkipsNull ==
    MergeDone =>
      /\ GroupOrOf(cobertura_grouped(cobertura_transformed))
      /\ GroupOrOf(df_final)

\* a merged row whose tiene_4g_o_mas is false although it is null in every
\* normalized row of its key
C8_Witness ==
    /\ MergeDone
    /\ \E g \in 1..Len(df_final.rows) :
          /\ df_final.rows[g]["tiene_4g_o_mas"] = Bool(FALSE)
          /\ \A i \in 1..Len(cobertura_transformed.rows) :
                KeyOf(cobertura_transformed.rows[i]) = KeyOf(df_final.rows[g])
                => cobertura_transformed.rows[i]["tiene_4g_o_mas"] = Na

HasNullKey(row) == \E c \in KeyColumns : IsNa(row[c])

WithoutNullKeys(df) ==
    LET keep(r) == ~HasNullKey(r)
    IN  [df EXCEPT !.rows = SelectSeq(df.rows, keep)]

\* C10: a normalized row with a null in a key column contributes nothing: no
\* merged row has a null key, and the merged output is the one the same
\* datasets give with those rows removed.
C10_NullKeysExcluded ==
    MergeDone =>
      /\ \A g \in 1..Len(df_final.rows) : ~HasNullKey(df_final.rows[g])
      /\ df_final = merge_datasets(WithoutNullKeys(cobertura_transformed),
                                   WithoutNullKeys(accesos_transformed)).df

\* both sides hold a row with the same key, null in the same column, and the
\* merge has run
C10_Witness ==
    /\ MergeDone
    /\ \E i \in 1..Len(cobertura_transformed.rows) :
         \E j \in 1..Len(accesos_transformed.rows) :
            /\ HasNullKey(cobertura_transformed.rows[i])
            /\ KeyOf(cobertura_transformed.rows[i]) = KeyOf(accesos_transformed.rows[j])

====
